---- MODULE Spec2Model ----
(***************************************************************************)
(* Bag ingestion pipeline of the ROS2 bag processor service.               *)
(*                                                                         *)
(* main.py: processing_jobs, upload_bag, process_bag_background,           *)
(*          update_progress, cancel_processing                             *)
(* rosbag_parser.py: ROS2BagParser.connect / close / get_metadata /        *)
(*          get_topic_info / process_camera_topic / process_pose_topic /   *)
(*          process_imu_topic / process_all                                *)
(* database.py: create_topic, bulk_insert_*, update_bag_processed          *)
(*                                                                         *)
(* Scheduling.  process_bag_background is an `async def` (main.py:36) that *)
(* is awaited on the server's event loop and whose body holds no await:    *)
(* parser.process_all is an ordinary synchronous call (main.py:53).  The   *)
(* request handlers (cancel_processing, main.py:209) are coroutines of the *)
(* same loop.  A handler therefore runs only while no pipeline occupies    *)
(* the loop; a request that arrives meanwhile waits in flight.  The        *)
(* variable `running` is the bag whose pipeline occupies the loop.         *)
(*                                                                         *)
(* Numbers.  Timestamps are integer nanoseconds as stored.  A float that   *)
(* the code computes as a quotient is kept as the pair <<num, den>>:       *)
(* frequency <<count, duration_ns>> is count / (duration_ns / 1e9) Hz,     *)
(* progress <<n, d>> is the fraction n / d (the record holds n/d * 100).   *)
(*                                                                         *)
(* Specifications.  Spec: the run of one bag with its cancel requests.     *)
(* LiveSpec: Spec with the pipeline's steps weakly fair.  MultiSpec: the   *)
(* runs of several small bags.  CodecSpec: one deserialize_* call on a     *)
(* built payload.                                                          *)
(***************************************************************************)
EXTENDS Integers, Sequences, FiniteSets, TLC

\* ------------------------------------------------------------------ bounds
\* Most rows stored for one topic of a bag.
MaxMsgs == 3
\* Most catalog topics present in one bag.
MaxTopics == 2

\* Bag ids handed out by db.create_bag; Spec uploads the bags of SpecBags.
BagIds == {1, 2, 3}
SpecBags == {1}
\* Nanosecond timestamps of stored rows: 1000 and 1050 fall in the same
\* microsecond and on the same double of seconds, 3000 on others.
Stamps == {1000, 1050, 3000}

\* ----------------------------------------------------------------- catalog
camera_topics ==
    << "/camera/camera/color/image_raw",
       "/camera/camera/depth/image_rect_raw",
       "/camera/camera/infra1/image_rect_raw",
       "/camera/camera/infra2/image_rect_raw" >>
pose_topics == << "/camera/pose" >>
imu_topics == << "/camera/camera/imu" >>

\* The loops of process_all with the pose loop first.
CatalogPoseFirst == pose_topics \o camera_topics \o imu_topics

\* The three loops of process_all, in the order they run.
Catalog == camera_topics \o pose_topics \o imu_topics
total_topics == Len(camera_topics) + Len(pose_topics) + Len(imu_topics)
CatalogNames == {Catalog[i] : i \in 1..Len(Catalog)}

\* Which loop of process_all handles catalog entry i.
KindOf(i) ==
    IF i <= Len(camera_topics) THEN "camera"
    ELSE IF i <= Len(camera_topics) + Len(pose_topics) THEN "pose"
    ELSE "imu"

\* ------------------------------------------------------------------ values
None == "None"
\* cover_image_path = None (a path is a tuple of its components)
NoPath == <<>>
\* 'topic_id': None of a frame whose topic is not created yet
NoId == 0
\* The float 0 that get_topic_info returns for a zero duration, and 0.0
Zero == <<0, 1>>
\* progress=100.0
Full == <<1, 1>>
NoTopicInfo ==
    [raises |-> FALSE, name |-> None, message_count |-> 0, frequency |-> Zero]
NoTopicRecord ==
    [bag_id |-> 0, name |-> None, message_count |-> 0, frequency |-> Zero,
     cover_image_path |-> NoPath, id |-> NoId]
NoBatch == [op |-> None, topic |-> None, records |-> <<>>]
NoCancel == "never"
\* None where the other values are records (a decoder's return value)
Nil == [is_none |-> TRUE]

\* A stored row of the messages relation: its timestamp and whether the
\* topic's deserialize_* returns a value (not None) for its data.
Rows == [timestamp : Stamps, decodes : BOOLEAN]

IsSorted(s) == \A i \in 1..Len(s) - 1 : s[i].timestamp <= s[i + 1].timestamp

\* What the SELECT could return without its ORDER BY.
RowSeqsUnordered == UNION { [1..n -> Rows] : n \in 0..MaxMsgs }

\* What SELECT ... WHERE topic_id = ? ORDER BY timestamp can return.
RowSeqs ==
    UNION { {s \in [1..n -> Rows] : IsSorted(s)} : n \in 0..MaxMsgs }


\* -------------------------------------------------------------------- state
VARIABLES
    processing_jobs,   \* main.py:33, bag id -> ProcessingStatus
    task,              \* per bag: the background task none/queued/running/returned
    running,           \* the bags whose pipeline occupies the event loop (at most one)
    bag_dir,           \* per bag: the store file its directory holds
    conn,              \* per bag: parser.conn, None / open / closed
    pc,                \* where the running pipeline stands
    metadata_topics,   \* names in metadata['topics']
    cat,               \* catalog entry the loops of process_all stand at
    processed,         \* process_all's counter
    store_rows,        \* rows the store holds for the topic in hand
    topic_info,        \* get_topic_info's result
    messages,          \* cursor.fetchall()
    idx,               \* enumerate index of the message loop
    frames_data,       \* process_camera_topic's batch
    cover_image_path,
    sample_data,       \* pose_data / imu_data
    topic_dir_files,   \* frame files written into the topic's directory
    encode_failed,     \* indexes whose cv2.imwrite returned False
    db_calls,          \* per bag: gateway calls that returned, in order
    db_topic,          \* the topic record created for the topic in hand
    db_batch,          \* the batch inserted for the topic in hand
    next_topic_id,     \* the topics table's serial id
    bag_processed,     \* per bag: bags.processed
    faults,            \* per bag: what went wrong around the run, other than decoding
    skipped_any,       \* per bag: the run has skipped a message that did not decode
    cancel_in_flight,  \* per bag: a cancel request waits for the event loop
    cancel_at,         \* per bag: the pipeline's stand when cancel was first requested
    data,              \* the payload handed to a deserialize_* call
    message_type,      \* the type string of the payload's topic
    built,             \* how the payload was put together
    decoder,           \* the deserialize_* that was called on it, if any
    result             \* what the call returned

vars ==
    << processing_jobs, task, running, bag_dir, conn, pc, metadata_topics, cat,
       processed, store_rows, topic_info, messages, idx, frames_data,
       cover_image_path, sample_data, topic_dir_files, encode_failed, db_calls,
       db_topic, db_batch, next_topic_id, bag_processed, faults, skipped_any,
       cancel_in_flight, cancel_at, data, message_type, built, decoder, result >>

\* The locals of the pipeline that occupies the loop.
locals ==
    << metadata_topics, cat, processed, store_rows, topic_info, messages, idx,
       frames_data, cover_image_path, sample_data, topic_dir_files,
       encode_failed >>
topic_locals ==
    << store_rows, topic_info, messages, idx, frames_data, cover_image_path,
       sample_data, topic_dir_files, encode_failed >>
gateway == << db_calls, db_topic, db_batch, next_topic_id, bag_processed >>
cancels == << cancel_in_flight, cancel_at >>
rest == << cancel_in_flight, cancel_at, skipped_any >>
\* The variables of a single deserialize_* call; the pipeline's steps take
\* the outcome of a call from the row (Rows) and leave these alone.
codec == << data, message_type, built, decoder, result >>
\* Everything the pipeline and the handlers work on.
pipeline ==
    << processing_jobs, task, running, bag_dir, conn, pc, locals, gateway,
       faults, rest >>

ProcessingStatus(s, p, m) == [status |-> s, progress |-> p, message |-> m]

\* An assignment that overwrites every entry of the map.
SetJobEvery(jobs, b, value) == [x \in DOMAIN jobs \cup {b} |-> value]

\* processing_jobs[bag_id] = value
SetJob(jobs, b, value) ==
    [x \in DOMAIN jobs \cup {b} |-> IF x = b THEN value ELSE jobs[x]]

PipelineInit ==
    /\ processing_jobs = << >>
    /\ task = [b \in BagIds |-> "none"]
    /\ running = {}
    /\ bag_dir = [b \in BagIds |-> "absent"]
    /\ conn = [b \in BagIds |-> None]
    /\ pc = "idle"
    /\ metadata_topics = {}
    /\ cat = 1
    /\ processed = 0
    /\ store_rows = << >>
    /\ topic_info = NoTopicInfo
    /\ messages = << >>
    /\ idx = 0
    /\ frames_data = << >>
    /\ cover_image_path = NoPath
    /\ sample_data = << >>
    /\ topic_dir_files = {}
    /\ encode_failed = {}
    /\ db_calls = [b \in BagIds |-> << >>]
    /\ db_topic = NoTopicRecord
    /\ db_batch = NoBatch
    /\ next_topic_id = 1
    /\ bag_processed = [b \in BagIds |-> FALSE]
    /\ faults = [b \in BagIds |-> {}]
    /\ skipped_any = [b \in BagIds |-> FALSE]
    /\ cancel_in_flight = [b \in BagIds |-> FALSE]
    /\ cancel_at = [b \in BagIds |-> NoCancel]

\* No deserialize_* call is looked at on its own.
Init ==
    /\ PipelineInit
    /\ data = << >>
    /\ message_type = None
    /\ built = Nil
    /\ decoder = None
    /\ result = Nil

\* ------------------------------------------------------------ pure helpers
\* SQL MIN / MAX over the timestamps of a non-empty result.
MinStamp(rows) ==
    CHOOSE t \in {rows[i].timestamp : i \in 1..Len(rows)} :
        \A i \in 1..Len(rows) : t <= rows[i].timestamp
MaxStamp(rows) ==
    CHOOSE t \in {rows[i].timestamp : i \in 1..Len(rows)} :
        \A i \in 1..Len(rows) : t >= rows[i].timestamp

\* get_topic_info with a COUNT that leaves out the rows that do not decode.
get_topic_info_decoded_only(name, rows) ==
    IF Len(rows) = 0
    THEN [raises |-> TRUE, name |-> name, message_count |-> 0, frequency |-> <<0, 1>>]
    ELSE [raises |-> FALSE,
          name |-> name,
          message_count |-> Cardinality({i \in 1..Len(rows) : rows[i].decodes}),
          frequency |-> <<0, 1>>]

\* frequency = stats['count'] / duration if duration > 0 else 0
Frequency(count, duration_ns) ==
    IF duration_ns > 0 THEN <<count, duration_ns>> ELSE Zero

\* get_topic_info for a topic the topics relation holds, `rows` being its
\* rows.  Over no rows MIN and MAX are NULL, and None - None raises TypeError.
get_topic_info(name, rows) ==
    IF Len(rows) = 0
    THEN [raises |-> TRUE, name |-> name, message_count |-> 0, frequency |-> Zero]
    ELSE [raises |-> FALSE,
          name |-> name,
          message_count |-> Len(rows),
          frequency |-> Frequency(Len(rows), MaxStamp(rows) - MinStamp(rows))]

\* topic_name.replace('/', '_') on the catalog's names
Slug(name) ==
    CASE name = "/camera/camera/color/image_raw" -> "_camera_camera_color_image_raw"
      [] name = "/camera/camera/depth/image_rect_raw" -> "_camera_camera_depth_image_rect_raw"
      [] name = "/camera/camera/infra1/image_rect_raw" -> "_camera_camera_infra1_image_rect_raw"
      [] name = "/camera/camera/infra2/image_rect_raw" -> "_camera_camera_infra2_image_rect_raw"
      [] name = "/camera/pose" -> "_camera_pose"
      [] name = "/camera/camera/imu" -> "_camera_camera_imu"

\* f"{timestamp_s:.6f}": the seconds rounded to a whole number of
\* microseconds (the stamps of the model are no rounding ties).
FormatStamp(timestamp_ns) == (timestamp_ns + 500) \div 1000

\* timestamp_s = timestamp_ns / 1e9, a double.  For stamps of the current
\* epoch neighbouring doubles lie 2^-22 s (238 ns) apart and the quotient is
\* rounded to the nearest: timestamp_s is kept as the index of its double.
Seconds(timestamp_ns) == (timestamp_ns + 119) \div 238

\* filepath.relative_to(upload_dir): <bag_id>/frames/<slug>/<stamp>.jpg
FramePath(b, name, timestamp_ns) ==
    << b, "frames", Slug(name), FormatStamp(timestamp_ns) >>

\* The dict appended to frames_data for the message at enumerate index i.
FrameRecord(b, name, row, i) ==
    [topic_id |-> NoId,
     timestamp |-> Seconds(row.timestamp),
     sequence_number |-> i,
     file_path |-> FramePath(b, name, row.timestamp)]

\* if idx == 0: cover_image_path = relative_path
Cover(cover, i, path) == IF i = 0 THEN path ELSE cover

\* update_progress: the callback process_bag_background hands to process_all
update_progress(jobs, b, progress) ==
    IF b \in DOMAIN jobs
    THEN [jobs EXCEPT ![b].progress = progress]
    ELSE jobs

\* if progress_callback and idx % 10 == 0: progress_callback(idx / total_messages)
SubProgress(jobs, b, i, total_messages) ==
    IF i % 10 = 0 THEN update_progress(jobs, b, <<i, total_messages>>) ELSE jobs

\* The frames without the topic's id.
WithoutTopicId(frames, id) == frames

\* for frame in frames_data: frame['topic_id'] = topic_db_id
WithTopicId(frames, id) ==
    [i \in 1..Len(frames) |-> [frames[i] EXCEPT !.topic_id = id]]

\* The pose / imu dict appended for a decoded row.
SampleRecord(b, row) == [bag_id |-> b, timestamp |-> Seconds(row.timestamp)]

\* The message without str(e).
ErrorMessageWithoutCause(exc) == "Error processing bag"

\* error_msg = f"Error processing bag: {str(e)}\\n{traceback}" (the traceback
\* left out)
ErrorMessage(exc) == "Error processing bag: " \o exc

\* ------------------------------------------------------------ the pipeline
\* close that leaves the connection as it is.
close_skipped(c) == c

\* ROS2BagParser.close: if self.conn: self.conn.close()
close(c) == IF c = "open" THEN "closed" ELSE c

\* process_bag_background returns, leaving `job` in processing_jobs.  The
\* frames of process_all and of the topic in hand are gone with it; a
\* connection that was opened has been closed by process_all's finally.
Returns(b, job) ==
    /\ processing_jobs' = SetJob(processing_jobs, b, job)
    /\ conn' = [conn EXCEPT ![b] = close(@)]
    /\ task' = [task EXCEPT ![b] = "returned"]
    /\ running' = {}
    /\ pc' = "idle"
    /\ metadata_topics' = {}
    /\ cat' = 1
    /\ processed' = 0
    /\ messages' = << >>
    /\ idx' = 0
    /\ frames_data' = << >>
    /\ cover_image_path' = NoPath
    /\ sample_data' = << >>
    /\ topic_dir_files' = {}
    /\ encode_failed' = {}
    /\ db_topic' = NoTopicRecord
    /\ db_batch' = NoBatch

\* The except clause of process_bag_background (main.py:63-71), reached by
\* the exception `exc`.
Raise(b, exc, fault) ==
    /\ Returns(b, ProcessingStatus("failed", Zero, ErrorMessage(exc)))
    /\ faults' = [faults EXCEPT ![b] = @ \cup {fault}]

ForgetTopic ==
    /\ store_rows' = << >>
    /\ topic_info' = NoTopicInfo

\* A background task started whatever occupies the event loop.
EventLoopShared(occupants) == TRUE

\* The event loop takes up a coroutine only when the one before it has
\* returned or awaits; process_bag_background never awaits.
EventLoopFree(occupants) == occupants = {}

\* upload_bag: the bag gets its id and its directory <upload_dir>/<bag_id>,
\* and the background task is added.  The store file keeps the name it was
\* uploaded under, so in the renamed directory it is <dirname>_0.db3,
\* <dirname>.db3 or neither.
upload_bag(b) ==
    /\ task[b] = "none"
    /\ EventLoopFree(running)
    /\ \E layout \in {"name_0.db3", "name.db3", "no_db3"} :
           bag_dir' = [bag_dir EXCEPT ![b] = layout]
    /\ task' = [task EXCEPT ![b] = "queued"]
    /\ UNCHANGED << processing_jobs, running, conn, pc, locals, gateway, faults, rest >>
    /\ UNCHANGED codec

\* process_bag_background up to the call of process_all (main.py:38-50).
process_bag_background(b) ==
    /\ task[b] = "queued"
    /\ EventLoopFree(running)
    /\ processing_jobs' =
           SetJob(processing_jobs, b,
                  ProcessingStatus("processing", Zero, "Starting bag processing..."))
    /\ conn' = [conn EXCEPT ![b] = None]
    /\ task' = [task EXCEPT ![b] = "running"]
    /\ running' = {b}
    /\ pc' = "connect"
    /\ UNCHANGED << bag_dir, locals, gateway, faults, rest >>
    /\ UNCHANGED codec

\* connect without the check that the store file exists.
StoreFoundUnchecked(layout) == TRUE

\* Whether connect finds a store file (rosbag_parser.py:31-37).
StoreFound(layout) == layout \in {"name_0.db3", "name.db3"}

\* process_all: connect, then get_metadata and the loop set-up.
connect(b) ==
    /\ running = {b}
    /\ pc = "connect"
    /\ IF ~StoreFound(bag_dir[b])
       THEN Raise(b, "FileNotFoundError", "no_db3")
       ELSE /\ conn' = [conn EXCEPT ![b] = "open"]
            /\ \E present \in SUBSET CatalogNames :
                   /\ Cardinality(present) <= MaxTopics
                   /\ metadata_topics' = present
            /\ cat' = 1
            /\ processed' = 0
            /\ pc' = "topics"
            /\ UNCHANGED << processing_jobs, task, running, faults, messages, idx,
                            frames_data, cover_image_path, sample_data,
                            topic_dir_files, encode_failed, db_topic, db_batch >>
    /\ UNCHANGED << bag_dir, store_rows, topic_info, db_calls, next_topic_id,
                    bag_processed, rest >>
    /\ UNCHANGED codec

\* The membership test that takes every catalog topic for absent.
PresentNever(topic, topics) == FALSE

\* if topic in [t['name'] for t in metadata['topics']]
Present(topic, topics) == topic \in topics

\* A loop of process_all passing a catalog topic the bag does not hold.
skip_absent_topic(b) ==
    /\ running = {b}
    /\ pc = "topics"
    /\ cat <= Len(Catalog)
    /\ ~Present(Catalog[cat], metadata_topics)
    /\ cat' = cat + 1
    /\ UNCHANGED << processing_jobs, task, running, bag_dir, conn, pc,
                    metadata_topics, processed, topic_locals, gateway, faults,
                    rest >>
    /\ UNCHANGED codec

\* The head of process_camera_topic / process_pose_topic / process_imu_topic
\* for a topic the bag holds: get_topic_info, the SELECT of its rows and the
\* initialisation of the batch.  `rows` is what the store holds for it.
begin_topic(b, kind) ==
    /\ running = {b}
    /\ pc = "topics"
    /\ cat <= Len(Catalog)
    /\ KindOf(cat) = kind
    /\ Present(Catalog[cat], metadata_topics)
    /\ \E rows \in RowSeqs :
           LET info == get_topic_info(Catalog[cat], rows) IN
           /\ store_rows' = rows
           /\ topic_info' = info
           /\ IF info.raises
              THEN Raise(b, "TypeError", "empty_topic")
              ELSE /\ messages' = rows
                   /\ idx' = 0
                   /\ frames_data' = << >>
                   /\ cover_image_path' = NoPath
                   /\ sample_data' = << >>
                   /\ topic_dir_files' = {}
                   /\ encode_failed' = {}
                   /\ db_topic' = NoTopicRecord
                   /\ db_batch' = NoBatch
                   /\ pc' = kind
                   /\ UNCHANGED << processing_jobs, task, running, conn, faults,
                                   metadata_topics, cat, processed >>
    /\ UNCHANGED << bag_dir, db_calls, next_topic_id, bag_processed, rest >>
    /\ UNCHANGED codec

process_camera_topic_begin(b) == begin_topic(b, "camera")
process_pose_topic_begin(b) == begin_topic(b, "pose")
process_imu_topic_begin(b) == begin_topic(b, "imu")

\* `break` in place of `continue`: the loop ends at the first message that
\* does not decode.
BreakLoop(i, n) == n

\* The loop that does not advance past a message that does not decode.
RetrySame(i, n) == i

\* A message that does not decode is passed over (`continue`, or the `if`
\* without else of the pose and imu loops): the loop, at index i of n
\* messages, goes on with the next one.
Continue(i, n) == i + 1

\* What cv2.imwrite can do with a decoded image: write the file and return
\* True, return False without a file, or raise cv2.error.
WriteOutcomes == {"written", "not_written", "raises"}

\* One pass of the message loop of process_camera_topic (lines 277-311).
process_camera_topic_message(b) ==
    /\ running = {b}
    /\ pc = "camera"
    /\ idx < Len(messages)
    /\ LET row == messages[idx + 1]
           name == Catalog[cat]
           frame == FrameRecord(b, name, row, idx)
       IN
       IF ~row.decodes
       THEN \* result is None: continue
            /\ idx' = Continue(idx, Len(messages))
            /\ skipped_any' = [skipped_any EXCEPT ![b] = TRUE]
            /\ UNCHANGED << processing_jobs, task, running, conn, pc, faults,
                            metadata_topics, cat, processed, store_rows,
                            topic_info, messages, frames_data, cover_image_path,
                            sample_data, topic_dir_files, encode_failed,
                            db_topic, db_batch >>
       ELSE \E w \in WriteOutcomes :
            IF w = "raises"
            THEN Raise(b, "cv2.error", "imwrite_raised") /\ ForgetTopic
                 /\ UNCHANGED skipped_any
            ELSE /\ UNCHANGED skipped_any
                 /\ topic_dir_files' =
                        IF w = "written"
                        THEN topic_dir_files \cup {frame.file_path}
                        ELSE topic_dir_files
                 /\ encode_failed' =
                        IF w = "not_written" THEN encode_failed \cup {idx}
                        ELSE encode_failed
                 /\ frames_data' = Append(frames_data, frame)
                 /\ cover_image_path' = Cover(cover_image_path, idx, frame.file_path)
                 /\ processing_jobs' = SubProgress(processing_jobs, b, idx, Len(messages))
                 /\ idx' = idx + 1
                 /\ UNCHANGED << task, running, conn, pc, faults, metadata_topics,
                                 cat, processed, store_rows, topic_info, messages,
                                 sample_data, db_topic, db_batch >>
    /\ UNCHANGED << bag_dir, db_calls, next_topic_id, bag_processed, cancels >>
    /\ UNCHANGED codec

\* The row db.create_topic inserts.
TopicRecord(b, info, cover, id) ==
    [bag_id |-> b,
     name |-> info.name,
     message_count |-> info.message_count,
     frequency |-> info.frequency,
     cover_image_path |-> cover,
     id |-> id]

Call(op, name) == [op |-> op, topic |-> name]

\* process_camera_topic / process_pose_topic / process_imu_topic returns to
\* process_all with its gateway calls made.
TopicReturns ==
    /\ pc' = "topic_returned"
    /\ UNCHANGED << processing_jobs, task, running, conn, faults, metadata_topics,
                    cat, processed, store_rows, topic_info, messages, idx,
                    cover_image_path, topic_dir_files, encode_failed >>

\* process_all after the topic's call: processed += 1;
\* progress_callback(processed / total_topics); the loop moves on.  The
\* frame of the topic's call is gone.
topic_done(b) ==
    /\ running = {b}
    /\ pc = "topic_returned"
    /\ processed' = processed + 1
    /\ processing_jobs' =
           update_progress(processing_jobs, b, <<processed + 1, total_topics>>)
    /\ cat' = cat + 1
    /\ pc' = "topics"
    /\ ForgetTopic
    /\ messages' = << >>
    /\ idx' = 0
    /\ frames_data' = << >>
    /\ cover_image_path' = NoPath
    /\ sample_data' = << >>
    /\ topic_dir_files' = {}
    /\ encode_failed' = {}
    /\ db_topic' = NoTopicRecord
    /\ db_batch' = NoBatch
    /\ UNCHANGED << task, running, bag_dir, conn, faults, metadata_topics,
                    db_calls, next_topic_id, bag_processed, rest >>
    /\ UNCHANGED codec

\* process_camera_topic after its loop (lines 313-331): create_topic, the
\* topic id written into the frames, bulk_insert_frames.  Either gateway call
\* can raise; bulk_insert_frames returns at once on an empty batch.
process_camera_topic_end(b) ==
    /\ running = {b}
    /\ pc = "camera"
    /\ idx = Len(messages)
    /\ LET name == Catalog[cat]
           record == TopicRecord(b, topic_info, cover_image_path, next_topic_id)
           batch == WithTopicId(frames_data, record.id)
       IN
       \E outcome \in {"ok", "create_topic_raises", "bulk_insert_raises"} :
           /\ outcome = "bulk_insert_raises" => Len(frames_data) > 0
           /\ CASE outcome = "create_topic_raises" ->
                     /\ Raise(b, "psycopg2.Error", "gateway") /\ ForgetTopic
                     /\ UNCHANGED << db_calls, next_topic_id >>
                [] outcome = "bulk_insert_raises" ->
                     /\ db_calls' =
                            [db_calls EXCEPT ![b] = Append(@, Call("create_topic", name))]
                     /\ next_topic_id' = next_topic_id + 1
                     /\ Raise(b, "psycopg2.Error", "gateway") /\ ForgetTopic
                [] outcome = "ok" ->
                     /\ db_topic' = record
                     /\ next_topic_id' = next_topic_id + 1
                     /\ frames_data' = batch
                     /\ db_calls' =
                            [db_calls EXCEPT ![b] =
                                @ \o << Call("create_topic", name),
                                        Call("bulk_insert_frames", name) >>]
                     /\ db_batch' =
                            [op |-> "bulk_insert_frames", topic |-> name,
                             records |-> batch]
                     /\ TopicReturns
                     /\ UNCHANGED sample_data
    /\ UNCHANGED << bag_dir, bag_processed, rest >>
    /\ UNCHANGED codec

\* One pass of the loop of process_pose_topic / process_imu_topic: the
\* deserialized dict, if any, is appended.
sample_message(b, kind) ==
    /\ running = {b}
    /\ pc = kind
    /\ idx < Len(messages)
    /\ LET row == messages[idx + 1] IN
       IF row.decodes
       THEN /\ sample_data' = Append(sample_data, SampleRecord(b, row))
            /\ idx' = idx + 1
            /\ UNCHANGED skipped_any
       ELSE /\ sample_data' = sample_data
            /\ idx' = Continue(idx, Len(messages))
            /\ skipped_any' = [skipped_any EXCEPT ![b] = TRUE]
    /\ UNCHANGED << processing_jobs, task, running, bag_dir, conn, pc,
                    metadata_topics, cat, processed, store_rows, topic_info,
                    messages, frames_data, cover_image_path, topic_dir_files,
                    encode_failed, gateway, faults, cancels >>
    /\ UNCHANGED codec

process_pose_topic_message(b) == sample_message(b, "pose")
process_imu_topic_message(b) == sample_message(b, "imu")

\* process_pose_topic / process_imu_topic after the loop: the bulk insert
\* (`insert_op`), then create_topic with no cover.
sample_end(b, kind, insert_op) ==
    /\ running = {b}
    /\ pc = kind
    /\ idx = Len(messages)
    /\ LET name == Catalog[cat]
           record == TopicRecord(b, topic_info, NoPath, next_topic_id)
       IN
       \E outcome \in {"ok", "bulk_insert_raises", "create_topic_raises"} :
           /\ outcome = "bulk_insert_raises" => Len(sample_data) > 0
           /\ CASE outcome = "bulk_insert_raises" ->
                     /\ Raise(b, "psycopg2.Error", "gateway") /\ ForgetTopic
                     /\ UNCHANGED << db_calls, next_topic_id >>
                [] outcome = "create_topic_raises" ->
                     /\ db_calls' =
                            [db_calls EXCEPT ![b] = Append(@, Call(insert_op, name))]
                     /\ Raise(b, "psycopg2.Error", "gateway") /\ ForgetTopic
                     /\ UNCHANGED next_topic_id
                [] outcome = "ok" ->
                     /\ db_batch' =
                            [op |-> insert_op, topic |-> name, records |-> sample_data]
                     /\ db_calls' =
                            [db_calls EXCEPT ![b] =
                                @ \o << Call(insert_op, name),
                                        Call("create_topic", name) >>]
                     /\ db_topic' = record
                     /\ next_topic_id' = next_topic_id + 1
                     /\ TopicReturns
                     /\ UNCHANGED << frames_data, sample_data >>
    /\ UNCHANGED << bag_dir, bag_processed, rest >>
    /\ UNCHANGED codec

process_pose_topic_end(b) == sample_end(b, "pose", "bulk_insert_pose_data")
process_imu_topic_end(b) == sample_end(b, "imu", "bulk_insert_imu_data")

\* The end of process_all and of process_bag_background: the bag is marked
\* processed, the finally closes the connection, the job becomes completed.
process_all_end(b) ==
    /\ running = {b}
    /\ pc = "topics"
    /\ cat > Len(Catalog)
    /\ \E raises \in BOOLEAN :
           IF raises
           THEN /\ Raise(b, "psycopg2.Error", "gateway")
                /\ UNCHANGED << db_calls, bag_processed >>
           ELSE /\ bag_processed' = [bag_processed EXCEPT ![b] = TRUE]
                /\ db_calls' =
                       [db_calls EXCEPT ![b] = Append(@, Call("update_bag_processed", None))]
                /\ Returns(b, ProcessingStatus("completed", Full,
                                               "Bag processing completed successfully"))
                /\ UNCHANGED faults
    /\ ForgetTopic
    /\ UNCHANGED << bag_dir, next_topic_id, rest >>
    /\ UNCHANGED codec

\* ------------------------------------------------------------ cancellation
\* A client posts /api/bags/{bag_id}/cancel.  The request waits until the
\* event loop is free.  cancel_at keeps whether the first request made
\* during the run came between two topics (one done, the loop at its head
\* with a topic of the bag still ahead) or elsewhere in the run.
cancel_request(b) ==
    /\ task[b] # "none"
    /\ ~cancel_in_flight[b]
    /\ cancel_in_flight' = [cancel_in_flight EXCEPT ![b] = TRUE]
    /\ cancel_at' =
           IF running = {b} /\ cancel_at[b] = NoCancel
           THEN [cancel_at EXCEPT ![b] =
                    IF /\ pc = "topics"
                       /\ processed >= 1
                       /\ \E i \in cat..Len(Catalog) : Catalog[i] \in metadata_topics
                    THEN "between_topics"
                    ELSE "elsewhere"]
           ELSE cancel_at
    /\ UNCHANGED << processing_jobs, task, running, bag_dir, conn, pc, locals,
                    gateway, faults, skipped_any >>
    /\ UNCHANGED codec

\* The job entry cancel_processing leaves (main.py:212-224); without an entry
\* it answers 404 and changes nothing.
Cancelled(jobs, b) ==
    IF b \notin DOMAIN jobs
    THEN jobs
    ELSE SetJob(jobs, b, ProcessingStatus("failed", Zero, "Processing cancelled by user"))

cancel_processing(b) ==
    /\ cancel_in_flight[b]
    /\ EventLoopFree(running)
    /\ processing_jobs' = Cancelled(processing_jobs, b)
    /\ cancel_in_flight' = [cancel_in_flight EXCEPT ![b] = FALSE]
    /\ UNCHANGED << task, running, bag_dir, conn, pc, locals, gateway, faults,
                    cancel_at, skipped_any >>
    /\ UNCHANGED codec

\* ----------------------------------------------------------- specification
Next ==
    \E b \in SpecBags :
        \/ upload_bag(b)
        \/ process_bag_background(b)
        \/ connect(b)
        \/ skip_absent_topic(b)
        \/ process_camera_topic_begin(b)
        \/ process_camera_topic_message(b)
        \/ process_camera_topic_end(b)
        \/ process_pose_topic_begin(b)
        \/ process_pose_topic_message(b)
        \/ process_pose_topic_end(b)
        \/ process_imu_topic_begin(b)
        \/ process_imu_topic_message(b)
        \/ process_imu_topic_end(b)
        \/ topic_done(b)
        \/ process_all_end(b)
        \/ cancel_request(b)
        \/ cancel_processing(b)

Spec == Init /\ [][Next]_vars

\* ------------------------------------------------------------------ claims
\* The indexes (1-based) of the rows that decode.
Decodable(rows) == {i \in 1..Len(rows) : rows[i].decodes}

\* A topic's call has returned to process_all: its gateway calls are made
\* and its rows, its batch and its topic record are all in the state.
TopicReturned(kind) == pc = "topic_returned" /\ KindOf(cat) = kind

JobIs(b, status) ==
    b \in DOMAIN processing_jobs /\ processing_jobs[b].status = status

CancelledByUser(b) ==
    /\ JobIs(b, "failed")
    /\ processing_jobs[b].message = "Processing cancelled by user"

\* C1: the sequence numbers of the frames a camera topic hands to
\* bulk_insert_frames are 0, 1, ..., k-1 in emission order.
C1_SequenceNumbersGapFree ==
    db_batch.op = "bulk_insert_frames" =>
        \A i \in 1..Len(db_batch.records) :
            db_batch.records[i].sequence_number = i - 1

\* C2: once a bag's job status is completed or failed, no step changes that
\* bag's status or progress again.
C2_TerminalStatusIsSink ==
    [][\A b \in DOMAIN processing_jobs :
           processing_jobs[b].status \in {"completed", "failed"} =>
               /\ b \in DOMAIN processing_jobs'
               /\ processing_jobs'[b].status = processing_jobs[b].status
               /\ processing_jobs'[b].progress = processing_jobs[b].progress]_vars

C4_NoWorkAfterCancel ==
    [][\A b \in BagIds :
           (cancel_at[b] # NoCancel /\ running = {b} /\ pc = "topics") =>
               /\ pc' \notin {"camera", "pose", "imu"}
               /\ db_calls'[b] = db_calls[b]
               /\ bag_processed'[b] = bag_processed[b]]_vars

\* C5: the cover path given to create_topic for a camera topic is the file
\* path of the first row that decodes, and is absent only when none does.
C5_CoverIsFirstDecodedFrame ==
    TopicReturned("camera") =>
        db_topic.cover_image_path =
            IF Decodable(store_rows) = {}
            THEN NoPath
            ELSE LET first == CHOOSE i \in Decodable(store_rows) :
                                  \A j \in Decodable(store_rows) : i <= j
                 IN FramePath(db_topic.bag_id, db_topic.name,
                              store_rows[first].timestamp)

\* C6: get_topic_info for a topic of the bag with no rows, or whose first
\* and last timestamps are equal, returns normally with frequency 0.
C6_DegenerateFrequencyIsZero ==
    (topic_info.name # None
        /\ (Len(store_rows) = 0 \/ MinStamp(store_rows) = MaxStamp(store_rows))) =>
        (~topic_info.raises /\ topic_info.frequency = Zero)

\* C7: the message count of every topic record equals the number of rows
\* the store holds for the topic, however many of them decoded.
C7_MessageCountIsStoredRows ==
    pc = "topic_returned" =>
        /\ db_topic.name = Catalog[cat]
        /\ db_topic.message_count = Len(store_rows)

\* A topic record is made for a topic of MaxMsgs rows of which the batch
\* holds one.
C7_Witness ==
    /\ pc = "topic_returned"
    /\ Len(store_rows) = MaxMsgs
    /\ Cardinality(Decodable(store_rows)) = 1
    /\ db_topic.message_count = MaxMsgs
    /\ Len(db_batch.records) = 1

\* C8: a bag directory with neither <dirname>_0.db3 nor <dirname>.db3 makes
\* connect fail: the job goes from processing straight to failed, no
\* connection is opened, no topic is processed and no gateway call is made.
C8_NoStoreFailsBeforeAnyTopic ==
    \A b \in BagIds :
        bag_dir[b] = "no_db3" =>
            /\ conn[b] # "open"
            /\ db_calls[b] = << >>
            /\ ~bag_processed[b]
            /\ running = {b} => pc = "connect"
            /\ b \in DOMAIN processing_jobs =>
                   processing_jobs[b].status \in {"processing", "failed"}
            /\ task[b] = "returned" => JobIs(b, "failed")

C8_Witness ==
    /\ bag_dir[1] = "no_db3"
    /\ task[1] = "returned"
    /\ JobIs(1, "failed")
    /\ processing_jobs[1].message = ErrorMessage("FileNotFoundError")
    /\ db_calls[1] = << >>

\* C9: a message that does not decode aborts neither its topic nor the bag.
\* Every message of a topic is visited and every row that decodes is in the
\* batch; every topic of the bag before the loop's stand has been processed;
\* and a run in which nothing went wrong but skipped messages ends
\* completed (unless a cancel request has overwritten the status since).
C9_DecodeFailureIsNotFatal ==
    /\ pc = "topic_returned" =>
           /\ idx = Len(messages)
           /\ Len(db_batch.records) = Cardinality(Decodable(store_rows))
    /\ pc \in {"topics", "topic_returned", "camera", "pose", "imu"} =>
           processed = Cardinality({i \in 1..(cat - 1) : Catalog[i] \in metadata_topics})
    /\ \A b \in BagIds :
           (task[b] = "returned" /\ faults[b] = {} /\ ~CancelledByUser(b)) =>
               (JobIs(b, "completed") /\ bag_processed[b])

\* A run that skipped a message has ended completed.
C9_Witness ==
    /\ task[1] = "returned"
    /\ skipped_any[1]
    /\ faults[1] = {}
    /\ JobIs(1, "completed")
    /\ Len(db_calls[1]) > 2

\* C10: a message whose frame file cv2.imwrite did not produce gets no
\* frame record, takes no sequence number and cannot be the cover: the
\* batch holds one record per written file, and a cover is a written file.
C10_EncodeFailureIsSkipped ==
    pc \in {"camera", "topic_returned"} /\ KindOf(cat) = "camera" =>
        /\ Len(frames_data) =
               Cardinality({i \in Decodable(messages) :
                                i <= idx /\ (i - 1) \notin encode_failed})
        /\ cover_image_path # NoPath => cover_image_path \in topic_dir_files

\* The faults of a run that are exceptions raised while a topic is
\* processed or its results are persisted, and what str(e) holds for each.
TopicFaults == {"gateway", "imwrite_raised", "empty_topic"}

FaultError(fault) ==
    CASE fault = "gateway" -> "psycopg2.Error"
      [] fault = "imwrite_raised" -> "cv2.error"
      [] fault = "empty_topic" -> "TypeError"
      [] fault = "no_db3" -> "FileNotFoundError"

\* C11: an exception raised while a topic is processed, other than a decode
\* or encode failure, aborts the bag: the step that raises it ends the run
\* with the job failed and the error in its message; the bag is never marked
\* processed, and no gateway call is made for it afterwards.
C11_TopicExceptionAbortsBag ==
    [][\A b \in BagIds :
           faults'[b] \cap TopicFaults # {} =>
               /\ task'[b] = "returned"
               /\ b \notin running'
               /\ ~bag_processed'[b]
               /\ \A i \in 1..Len(db_calls'[b]) :
                      db_calls'[b][i].op # "update_bag_processed"
               /\ faults[b] = {} =>
                      /\ b \in DOMAIN processing_jobs'
                      /\ processing_jobs'[b].status = "failed"
                      /\ processing_jobs'[b].message \in
                             {"Error processing bag: " \o FaultError(f) : f \in faults'[b]}
               /\ faults[b] # {} => db_calls'[b] = db_calls[b]]_vars

\* bulk_insert_frames raised for the second camera topic of a bag: the
\* first topic's two calls and the second's create_topic are all there is.
C11_Witness ==
    /\ faults[1] = {"gateway"}
    /\ task[1] = "returned"
    /\ JobIs(1, "failed")
    /\ processing_jobs[1].message = "Error processing bag: psycopg2.Error"
    /\ Len(db_calls[1]) = 3
    /\ db_calls[1][3].op = "create_topic"
    /\ ~bag_processed[1]

\* ------------------------------------------------------------------ fairness
\* The steps of the pipeline of bag b once process_bag_background has begun.
\* Its body is synchronous code over finite loops: a step that can be taken
\* is taken.
PipelineStep(b) ==
    \/ connect(b)
    \/ skip_absent_topic(b)
    \/ process_camera_topic_begin(b)
    \/ process_camera_topic_message(b)
    \/ process_camera_topic_end(b)
    \/ process_pose_topic_begin(b)
    \/ process_pose_topic_message(b)
    \/ process_pose_topic_end(b)
    \/ process_imu_topic_begin(b)
    \/ process_imu_topic_message(b)
    \/ process_imu_topic_end(b)
    \/ topic_done(b)
    \/ process_all_end(b)

LiveSpec == Spec /\ \A b \in SpecBags : WF_vars(PipelineStep(b))

\* C12: every run of process_bag_background that has begun comes to its
\* return with the bag's job completed or failed, whatever failed inside
\* connect, topic processing or persistence.
C12_RunEndsTerminal ==
    \A b \in BagIds :
        (task[b] = "running") ~>
            (task[b] = "returned" /\ (JobIs(b, "completed") \/ JobIs(b, "failed")))

\* A run in which get_topic_info raised has returned with the job failed.
C12_Witness ==
    /\ task[1] = "returned"
    /\ faults[1] = {"empty_topic"}
    /\ JobIs(1, "failed")
    /\ processing_jobs[1].message = "Error processing bag: TypeError"

\* C13: the step that sets a bag's job to completed is taken with every
\* catalog topic passed, each topic of the bag counted as processed and its
\* create_topic call made.
C13_CompletedOnlyAfterEveryTopic ==
    [][\A b \in BagIds :
           (/\ b \in DOMAIN processing_jobs'
            /\ processing_jobs'[b].status = "completed"
            /\ ~JobIs(b, "completed")) =>
               /\ running = {b}
               /\ cat > Len(Catalog)
               /\ processed = Cardinality(metadata_topics)
               /\ \A name \in metadata_topics :
                      \E i \in 1..Len(db_calls[b]) :
                          db_calls[b][i] = Call("create_topic", name)]_vars

\* A bag of two topics has completed: two calls for each and
\* update_bag_processed.
C13_Witness ==
    /\ JobIs(1, "completed")
    /\ bag_processed[1]
    /\ Len(db_calls[1]) = 5
    /\ db_calls[1][5].op = "update_bag_processed"

\* C14: the fraction in the job entry once a topic is done is the number of
\* topics done over the number of catalog topics the bag holds (so 1 after
\* the last of them).
C14_ProgressOverTopicsToProcess ==
    \A b \in BagIds :
        (running = {b} /\ pc = "topics" /\ processed >= 1) =>
            processing_jobs[b].progress[1] * Cardinality(metadata_topics) =
                processed * processing_jobs[b].progress[2]

\* C15: while a bag is processed its progress is within [0, 1] and, from
\* the completion of a topic on, not below topics done / total_topics, the
\* value reported at that completion.
C15_ProgressNeverFallsBack ==
    \A b \in BagIds :
        (running = {b} /\ JobIs(b, "processing")) =>
            LET p == processing_jobs[b].progress IN
            /\ 0 <= p[1]
            /\ p[1] <= p[2]
            /\ pc \in {"topics", "camera", "pose", "imu", "topic_returned"} =>
                   p[1] * total_topics >= processed * p[2]

\* ------------------------------------------------------------- several bags
\* MultiSpec uploads every bag of BagIds; their background tasks queue up
\* for the event loop in any order.  The bags it draws are small: at most
\* one catalog topic each, with at most one stored row.
MultiTopics ==
    { {"/camera/camera/color/image_raw"}, {"/camera/pose"},
      {"/camera/camera/imu"} }
MultiRows == { << [timestamp |-> 1000, decodes |-> TRUE] >> }

MultiNext ==
    \E b \in BagIds :
        \/ upload_bag(b)
        \/ process_bag_background(b)
        \/ connect(b) /\ metadata_topics' \in MultiTopics \cup {{}}
        \/ skip_absent_topic(b)
        \/ process_camera_topic_begin(b) /\ store_rows' \in MultiRows
        \/ process_camera_topic_message(b)
        \/ process_camera_topic_end(b)
        \/ process_pose_topic_begin(b) /\ store_rows' \in MultiRows
        \/ process_pose_topic_message(b)
        \/ process_pose_topic_end(b)
        \/ process_imu_topic_begin(b) /\ store_rows' \in MultiRows
        \/ process_imu_topic_message(b)
        \/ process_imu_topic_end(b)
        \/ topic_done(b)
        \/ process_all_end(b)

MultiSpec == Init /\ [][MultiNext]_vars

\* Settings.max_concurrent_processing
max_concurrent_processing == 2

\* C16: the number of bags whose job is in status processing, and of
\* pipelines that run, never exceeds max_concurrent_processing, however
\* many bags are uploaded.
C16_ProcessingWithinMaximum ==
    /\ Cardinality({b \in DOMAIN processing_jobs :
                        processing_jobs[b].status = "processing"})
           <= max_concurrent_processing
    /\ Cardinality(running) <= max_concurrent_processing

\* More bags than the maximum are uploaded: one is processed, the tasks of
\* two more wait.
C16_Witness ==
    /\ Cardinality(BagIds) > max_concurrent_processing
    /\ \A b \in BagIds : task[b] # "none"
    /\ running = {2}
    /\ JobIs(2, "processing")
    /\ task[1] = "queued"
    /\ task[3] = "queued"

\* C17: a step of the pipeline of one bag leaves alone every other bag's
\* job entry, store connection, directory and gateway calls, and writes
\* frame files only below its own bag's directory.
C17_PipelinesDoNotInterfere ==
    [][\A a \in running \cup running' :
           /\ \A f \in topic_dir_files' \ topic_dir_files : f[1] = a
           /\ \A o \in BagIds \ {a} :
                  /\ (o \in DOMAIN processing_jobs') = (o \in DOMAIN processing_jobs)
                  /\ o \in DOMAIN processing_jobs =>
                         processing_jobs'[o] = processing_jobs[o]
                  /\ conn'[o] = conn[o]
                  /\ bag_dir'[o] = bag_dir[o]
                  /\ db_calls'[o] = db_calls[o]]_vars

\* The pipeline of bag 2 runs on its open store after the run of bag 1 has
\* completed and closed its own.
C17_Witness ==
    /\ running = {2}
    /\ conn[2] = "open"
    /\ JobIs(2, "processing")
    /\ task[1] = "returned"
    /\ conn[1] = "closed"
    /\ JobIs(1, "completed")

\* The place of a topic in the order camera, pose, inertial.
Rank(name) ==
    IF \E i \in 1..Len(camera_topics) : camera_topics[i] = name THEN 1
    ELSE IF \E i \in 1..Len(pose_topics) : pose_topics[i] = name THEN 2
    ELSE 3

\* The gateway calls of a run that persist a topic.
TopicCalls(b) == SelectSeq(db_calls[b], LAMBDA c : c.topic # None)

\* C18: the gateway calls of a run come topic by topic in the order camera
\* topics, pose topics, inertial topics: a call for a topic is never
\* followed by a call for a topic of an earlier kind, the calls of one topic
\* are not separated by another topic's, and the pipeline stands in at most
\* one topic.
C18_TopicsInCatalogOrder ==
    \A b \in BagIds :
        LET calls == TopicCalls(b) IN
        /\ \A i, j \in 1..Len(calls) :
               i < j => Rank(calls[i].topic) <= Rank(calls[j].topic)
        /\ \A i, j, k \in 1..Len(calls) :
               (i < j /\ j < k /\ calls[i].topic = calls[k].topic) =>
                   calls[j].topic = calls[i].topic
        /\ (running = {b} /\ pc \in {"camera", "pose", "imu", "topic_returned"}) =>
               /\ \A i \in 1..Len(calls) : calls[i].topic = Catalog[cat] \/
                      Rank(calls[i].topic) <= Rank(Catalog[cat])
               /\ pc # "topic_returned" => pc = KindOf(cat)

\* A camera topic was persisted, then the inertial topic.
C18_Witness ==
    /\ Len(db_calls[1]) >= 4
    /\ Rank(db_calls[1][1].topic) = 1
    /\ db_calls[1][2].op = "bulk_insert_frames"
    /\ db_calls[1][3].op = "bulk_insert_imu_data"
    /\ db_calls[1][4] = Call("create_topic", "/camera/camera/imu")

\* The rows of a topic that decode, in the order they were read.
Survivors(rows) == SelectSeq(rows, LAMBDA r : r.decodes)

\* C19: the batch a topic hands to its bulk insert holds the rows that
\* decoded, in the order the rows were read, and its timestamps never
\* decrease.
C19_BatchKeepsSourceOrder ==
    pc = "topic_returned" =>
        LET batch == db_batch.records
            kept == Survivors(store_rows)
        IN
        /\ Len(batch) = Len(kept)
        /\ \A i \in 1..Len(batch) : batch[i].timestamp = Seconds(kept[i].timestamp)
        /\ \A i \in 1..Len(batch) - 1 : batch[i].timestamp <= batch[i + 1].timestamp

\* Of three rows the middle one did not decode: the batch holds the first
\* and the third, in that order.
C19_Witness ==
    /\ pc = "topic_returned"
    /\ Len(store_rows) = 3
    /\ store_rows[1].decodes /\ ~store_rows[2].decodes /\ store_rows[3].decodes
    /\ store_rows[1].timestamp < store_rows[3].timestamp
    /\ Len(db_batch.records) = 2
    /\ db_batch.records[1].timestamp = Seconds(store_rows[1].timestamp)
    /\ db_batch.records[2].timestamp = Seconds(store_rows[3].timestamp)

\* C20: a bag whose pipeline does not run, its run having returned or not
\* begun, holds no open store connection: a run that opened the store has
\* closed it on its way out, on success and on every failure.
C20_StoreClosedAfterRun ==
    \A b \in BagIds :
        /\ b \notin running => conn[b] # "open"
        /\ (task[b] = "returned" /\ faults[b] # {"no_db3"}) => conn[b] = "closed"

\* cv2.imwrite raised in the middle of a camera topic: the run has failed
\* and its connection is closed.
C20_Witness ==
    /\ task[1] = "returned"
    /\ faults[1] = {"imwrite_raised"}
    /\ JobIs(1, "failed")
    /\ conn[1] = "closed"

\* ------------------------------------------------------------------- codec
\* A payload is a sequence of bytes (0..255).  A double is kept as its bit
\* pattern, the tuple of its eight bytes with the most significant first;
\* a string as the sequence of its character codes.

\* Longest frame id of a built payload.
MaxFrameId == 2
\* Largest height and width of a built raw image.
MaxSide == 2
\* Most pixel bytes a built raw image declares or carries.
MaxData == 4

Reverse(s) == [i \in 1..Len(s) |-> s[Len(s) + 1 - i]]

Min(a, b) == IF a <= b THEN a ELSE b

\* data[a:b] of Python for 0 <= a: never raises, cut at the end of data.
Slice(bytes, a, b) ==
    SubSeq(bytes, Min(a, Len(bytes)) + 1, Min(b, Len(bytes)))

\* struct.unpack_from(fmt, data, offset) raises struct.error unless the
\* buffer holds `size` bytes from offset on.
Raises(bytes, offset, size) == offset + size > Len(bytes)

\* struct.unpack_from('<I', data, offset)[0] where it does not raise
unpack_I(bytes, offset) ==
    bytes[offset + 1] + 256 * bytes[offset + 2] + 65536 * bytes[offset + 3]
        + 16777216 * bytes[offset + 4]

\* struct.pack('<I', n)
pack_I(n) ==
    << n % 256, (n \div 256) % 256, (n \div 65536) % 256, (n \div 16777216) % 256 >>

\* One double read with the most significant byte first ('>d').
unpack_d_big_endian(bytes, offset) == SubSeq(bytes, offset + 1, offset + 8)

\* One double of a '<d...' format, where it does not raise
unpack_d(bytes, offset) == Reverse(SubSeq(bytes, offset + 1, offset + 8))

\* struct.pack('<d', v)
pack_d(v) == Reverse(v)

\* n bytes of value v
Fill(n, v) == [i \in 1..n |-> v]

\* Whether the string `needle` occurs in `text` (Python's `in`).
Contains(needle, text) ==
    \E k \in 0..(Len(text) - Len(needle)) :
        SubSeq(text, k + 1, k + Len(needle)) = needle

\* Whether bytes.decode('utf-8') returns: the strings of the model are
\* ASCII, and a lone byte of 128 or more is not UTF-8.
Utf8Decodes(bytes) == \A i \in 1..Len(bytes) : bytes[i] < 128

\* The encodings the raw-image branch looks for.
bgr8 == << 98, 103, 114, 56 >>
rgb8 == << 114, 103, 98, 56 >>
mono8 == << 109, 111, 110, 111, 56 >>
enc16UC1 == << 49, 54, 85, 67, 49 >>

\* 'CompressedImage' in message_type, on the type strings of the model
IsCompressedImage(type) == type = "sensor_msgs/msg/CompressedImage"

\* cv2.imdecode.  The image files of the model are the JPEG start marker
\* followed by a height and a width byte; of anything else cv2.imdecode
\* makes no image (None, or cv2.error on an empty buffer: Nil).
imdecode(buf) ==
    IF Len(buf) = 4 /\ buf[1] = 255 /\ buf[2] = 216
    THEN [height |-> buf[3], width |-> buf[4], channels |-> 3]
    ELSE Nil

\* np.frombuffer(image_data, dtype).reshape(shape): an array of
\* height x width x channels items of `itemsize` bytes, or ValueError (Nil
\* here) when the buffer is not exactly that many items.
reshape(image_data, itemsize, height, width, channels) ==
    IF Len(image_data) % itemsize = 0
           /\ Len(image_data) \div itemsize = height * width * channels
    THEN [height |-> height, width |-> width, channels |-> channels]
    ELSE Nil

\* What deserialize_image_message returns for an image array.
ImageTuple(img, width, height) == [img |-> img, width |-> width, height |-> height]

\* The head of the raw-image branch of deserialize_image_message (lines
\* 142-167): the offsets it computes and the fields it reads.  `raises` when
\* one of its struct.unpack_from calls does; the last one reads furthest.
RawImageHead(bytes) ==
    IF Raises(bytes, 12, 4)
    THEN [raises |-> TRUE]
    ELSE LET frame_id_len == unpack_I(bytes, 12)
             at_height == 16 + frame_id_len
         IN
         IF Raises(bytes, at_height + 8, 4)
         THEN [raises |-> TRUE]
         ELSE LET encoding_len == unpack_I(bytes, at_height + 8)
                  at_encoding == at_height + 12
                  at_flag == at_encoding + encoding_len
              IN
              IF Raises(bytes, at_flag + 5, 4)
              THEN [raises |-> TRUE]
              ELSE [raises |-> FALSE,
                    height |-> unpack_I(bytes, at_height),
                    width |-> unpack_I(bytes, at_height + 4),
                    encoding |-> Slice(bytes, at_encoding, at_flag),
                    data_len |-> unpack_I(bytes, at_flag + 5),
                    at_data |-> at_flag + 9]

\* deserialize_image_message(data, message_type); every exception inside is
\* caught and None returned.
deserialize_image_message(bytes, type) ==
    IF IsCompressedImage(type)
    THEN IF Raises(bytes, 4, 4)
         THEN Nil
         ELSE LET format_len == unpack_I(bytes, 4)
                  compressed_data == Slice(bytes, 8 + format_len, Len(bytes))
                  img == imdecode(compressed_data)
              IN IF img # Nil THEN ImageTuple(img, img.width, img.height) ELSE Nil
    ELSE LET head == RawImageHead(bytes) IN
         IF head.raises
         THEN Nil
         ELSE LET image_data ==
                      Slice(bytes, head.at_data, head.at_data + head.data_len)
                  img ==
                      IF ~Utf8Decodes(head.encoding)
                      THEN Nil
                      ELSE IF Contains(bgr8, head.encoding) \/ Contains(rgb8, head.encoding)
                      THEN reshape(image_data, 1, head.height, head.width, 3)
                      ELSE IF Contains(mono8, head.encoding)
                      THEN reshape(image_data, 1, head.height, head.width, 1)
                      ELSE IF Contains(enc16UC1, head.encoding)
                      THEN reshape(image_data, 2, head.height, head.width, 1)
                      ELSE Nil
              IN IF img # Nil THEN ImageTuple(img, head.width, head.height) ELSE Nil

\* The offset behind the header (CDR preamble, stamp, frame id) that the
\* pose and imu decoders skip; -1 when reading the frame id's length raises.
SkipHeader(bytes) ==
    IF Raises(bytes, 12, 4) THEN -1 ELSE 16 + unpack_I(bytes, 12)

\* deserialize_pose_message(data)
deserialize_pose_message(bytes) ==
    LET offset == SkipHeader(bytes) IN
    IF offset < 0 \/ Raises(bytes, offset, 24) \/ Raises(bytes, offset + 24, 32)
    THEN Nil
    ELSE [x |-> unpack_d(bytes, offset),
          y |-> unpack_d(bytes, offset + 8),
          z |-> unpack_d(bytes, offset + 16),
          qx |-> unpack_d(bytes, offset + 24),
          qy |-> unpack_d(bytes, offset + 32),
          qz |-> unpack_d(bytes, offset + 40),
          qw |-> unpack_d(bytes, offset + 48)]

\* deserialize_imu_message(data)
deserialize_imu_message(bytes) ==
    LET offset == SkipHeader(bytes)
        at_angular == offset + 32 + 72
        at_linear == at_angular + 24 + 72
    IN
    IF offset < 0 \/ Raises(bytes, at_angular, 24) \/ Raises(bytes, at_linear, 24)
    THEN Nil
    ELSE [angular_velocity |->
              [x |-> unpack_d(bytes, at_angular),
               y |-> unpack_d(bytes, at_angular + 8),
               z |-> unpack_d(bytes, at_angular + 16)],
          linear_acceleration |->
              [x |-> unpack_d(bytes, at_linear),
               y |-> unpack_d(bytes, at_linear + 8),
               z |-> unpack_d(bytes, at_linear + 16)]]

\* ------------------------------------------------------------ built payloads
\* The bit patterns of 0.0, 1.0, 2.0 and 3.0.
DoubleVals ==
    { << 0, 0, 0, 0, 0, 0, 0, 0 >>, << 63, 240, 0, 0, 0, 0, 0, 0 >>,
      << 64, 0, 0, 0, 0, 0, 0, 0 >>, << 64, 8, 0, 0, 0, 0, 0, 0 >> }

\* Encoding strings: the four supported ones, "yuv422", and "xrgb8", which
\* holds a supported name.
Encodings ==
    { bgr8, rgb8, mono8, enc16UC1, << 121, 117, 118, 52, 50, 50 >>,
      << 120 >> \o rgb8 }
SupportedEncodings == { bgr8, rgb8, mono8, enc16UC1 }

\* "jpeg"
jpeg == << 106, 112, 101, 103 >>

\* The 4-byte preamble, the 8-byte stamp and the length-prefixed frame id.
Header(frame_id_len) ==
    << 0, 1, 0, 0 >> \o Fill(8, 0) \o pack_I(frame_id_len) \o Fill(frame_id_len, 102)

\* A raw image as the raw branch reads it: header, height, width, encoding,
\* is_bigendian, step, the declared data length, and `carried` pixel bytes.
BuildRawImage(b) ==
    Header(b.frame_id_len) \o pack_I(b.height) \o pack_I(b.width)
        \o pack_I(Len(b.encoding)) \o b.encoding \o << 0 >> \o pack_I(b.width)
        \o pack_I(b.data_len) \o Fill(b.carried, 7)

\* A compressed image as the other branch reads it: preamble, format
\* string, file.
BuildCompressedImage(b) ==
    << 0, 1, 0, 0 >> \o pack_I(Len(b.format)) \o b.format \o b.file

\* A pose: header, then x, y, z, qx, qy, qz, qw as little-endian doubles.
BuildPose(b) ==
    Header(b.frame_id_len)
        \o pack_d(b.fields[1]) \o pack_d(b.fields[2]) \o pack_d(b.fields[3])
        \o pack_d(b.fields[4]) \o pack_d(b.fields[5]) \o pack_d(b.fields[6])
        \o pack_d(b.fields[7])

\* An inertial sample: header, orientation and its covariance, angular
\* velocity and covariance, linear acceleration and covariance.
BuildImu(b) ==
    Header(b.frame_id_len) \o Fill(32, 0) \o Fill(72, 0)
        \o pack_d(b.angular[1]) \o pack_d(b.angular[2]) \o pack_d(b.angular[3])
        \o Fill(72, 0)
        \o pack_d(b.linear[1]) \o pack_d(b.linear[2]) \o pack_d(b.linear[3])
        \o Fill(72, 0)

RawImageBuilds ==
    [kind : {"raw_image"}, frame_id_len : {0, MaxFrameId}, height : 0..MaxSide,
     width : 0..MaxSide, encoding : Encodings, data_len : 0..MaxData,
     carried : 0..MaxData]
CompressedImageBuilds ==
    [kind : {"compressed_image"}, format : {jpeg},
     file : { << 255, 216, 1, 2 >>, << 7, 7, 7, 7 >>, << >> }]
PoseBuilds ==
    [kind : {"pose"}, frame_id_len : 0..MaxFrameId, fields : [1..7 -> DoubleVals]]
ImuBuilds ==
    [kind : {"imu"}, frame_id_len : 0..MaxFrameId, angular : [1..3 -> DoubleVals],
     linear : [1..3 -> DoubleVals]]

Build(b) ==
    CASE b.kind = "raw_image" -> BuildRawImage(b)
      [] b.kind = "compressed_image" -> BuildCompressedImage(b)
      [] b.kind = "pose" -> BuildPose(b)
      [] b.kind = "imu" -> BuildImu(b)

\* One whole payload of each shape, to be cut short at every length.
WholeBuilds ==
    { [kind |-> "raw_image", frame_id_len |-> MaxFrameId, height |-> 1, width |-> 1,
       encoding |-> mono8, data_len |-> 1, carried |-> 1],
      [kind |-> "compressed_image", format |-> jpeg, file |-> << 255, 216, 1, 2 >>],
      [kind |-> "pose", frame_id_len |-> MaxFrameId,
       fields |-> [i \in 1..7 |-> << 64, 0, 0, 0, 0, 0, 0, 0 >>]],
      [kind |-> "imu", frame_id_len |-> MaxFrameId,
       angular |-> [i \in 1..3 |-> << 64, 0, 0, 0, 0, 0, 0, 0 >>],
       linear |-> [i \in 1..3 |-> << 64, 0, 0, 0, 0, 0, 0, 0 >>]] }

\* The type strings a built payload is decoded under: an image payload
\* under both image types and an unsupported one, the others under their own.
TypesOf(kind) ==
    CASE kind \in {"raw_image", "compressed_image"} ->
             { "sensor_msgs/msg/Image", "sensor_msgs/msg/CompressedImage",
               "sensor_msgs/msg/PointCloud2" }
      [] kind = "pose" -> { "geometry_msgs/msg/PoseStamped" }
      [] kind = "imu" -> { "sensor_msgs/msg/Imu" }

\* CodecSpec: a payload is built (or a whole one cut short), then one of
\* the three decoders is called on it.
CodecInit ==
    /\ PipelineInit
    /\ decoder = None
    /\ result = Nil
    /\ \/ \E b \in RawImageBuilds \cup CompressedImageBuilds \cup PoseBuilds \cup ImuBuilds :
              /\ built = b
              /\ data = Build(b)
              /\ message_type \in TypesOf(b.kind)
       \/ \E b \in WholeBuilds :
              \E length \in 0..(Len(Build(b)) - 1) :
                  /\ built = [kind |-> "cut", of |-> b, length |-> length]
                  /\ data = SubSeq(Build(b), 1, length)
                  /\ message_type \in TypesOf(b.kind)

image_call ==
    /\ decoder = None
    /\ decoder' = "image"
    /\ result' = deserialize_image_message(data, message_type)
    /\ UNCHANGED << data, message_type, built, pipeline >>

pose_call ==
    /\ decoder = None
    /\ decoder' = "pose"
    /\ result' = deserialize_pose_message(data)
    /\ UNCHANGED << data, message_type, built, pipeline >>

imu_call ==
    /\ decoder = None
    /\ decoder' = "imu"
    /\ result' = deserialize_imu_message(data)
    /\ UNCHANGED << data, message_type, built, pipeline >>

CodecNext == image_call \/ pose_call \/ imu_call

CodecSpec == CodecInit /\ [][CodecNext]_vars

\* ------------------------------------------------------------ codec claims
\* The type strings of the four supported shapes.
SupportedTypes ==
    { "sensor_msgs/msg/CompressedImage", "sensor_msgs/msg/Image",
      "geometry_msgs/msg/PoseStamped", "sensor_msgs/msg/Imu" }

\* C21: a payload whose type string is none of the four supported ones is
\* not decoded: the decoder called on it returns None.
C21_UnknownTypeFails ==
    (decoder # None /\ message_type \notin SupportedTypes) => result = Nil

\* C22: a decoder fails on a payload that ends before a field it reads: on
\* every payload shorter than the 4-byte preamble, on every whole payload
\* cut short, and on a raw image whose declared data length exceeds the
\* bytes that follow it.
C22_ReadPastEndFails ==
    /\ (decoder # None /\ Len(data) < 4) => result = Nil
    /\ (/\ built.kind = "cut"
        /\ \/ decoder = "pose" /\ built.of.kind = "pose"
           \/ decoder = "imu" /\ built.of.kind = "imu"
           \/ decoder = "image" /\ built.of.kind = "raw_image"
                  /\ ~IsCompressedImage(message_type)) =>
           result = Nil
    /\ (decoder = "image" /\ ~IsCompressedImage(message_type)) =>
           LET head == RawImageHead(data) IN
           (head.raises \/ head.at_data + head.data_len > Len(data)) => result = Nil

\* C23: a raw image whose encoding string is not exactly one of the
\* supported encodings is not decoded.
C23_UnsupportedEncodingFails ==
    (decoder = "image" /\ ~IsCompressedImage(message_type)) =>
        LET head == RawImageHead(data) IN
        (~head.raises /\ head.encoding \notin SupportedEncodings) => result = Nil

\* C24: deserialize_pose_message called on a built pose payload returns the
\* seven doubles it was built from, as x, y, z, qx, qy, qz, qw.
C24_PoseRoundTrip ==
    (decoder = "pose" /\ built.kind = "pose") =>
        result = [x |-> built.fields[1], y |-> built.fields[2], z |-> built.fields[3],
                  qx |-> built.fields[4], qy |-> built.fields[5],
                  qz |-> built.fields[6], qw |-> built.fields[7]]

\* Position (1.0, 2.0, 3.0) and quaternion (0.0, 0.0, 0.0, 1.0) behind the
\* longest frame id have been decoded.
C24_Witness ==
    /\ decoder = "pose"
    /\ built.kind = "pose"
    /\ built.frame_id_len = MaxFrameId
    /\ result # Nil
    /\ result.x = << 63, 240, 0, 0, 0, 0, 0, 0 >>
    /\ result.y = << 64, 0, 0, 0, 0, 0, 0, 0 >>
    /\ result.z = << 64, 8, 0, 0, 0, 0, 0, 0 >>
    /\ result.qx = << 0, 0, 0, 0, 0, 0, 0, 0 >>
    /\ result.qy = result.qx
    /\ result.qz = result.qx
    /\ result.qw = result.x

\* ---------------------------------------------------------- pipeline claims
\* C25: the step that ends a run in which no gateway call and no image
\* write raised leaves the job completed, with exactly one create_topic
\* call for every catalog topic of the bag and no call for any other topic.
C25_OneTopicRecordPerPresentTopic ==
    [][\A b \in BagIds :
           (running = {b} /\ running' = {} /\ pc # "connect"
                /\ faults'[b] \subseteq {"empty_topic"}) =>
               /\ b \in DOMAIN processing_jobs'
               /\ processing_jobs'[b].status = "completed"
               /\ \A i \in 1..Len(db_calls'[b]) :
                      db_calls'[b][i].topic \in metadata_topics \cup {None}
               /\ \A name \in metadata_topics :
                      Cardinality({i \in 1..Len(db_calls'[b]) :
                                       db_calls'[b][i] = Call("create_topic", name)}) = 1]_vars

\* C26: a bag whose job is failed has not been marked processed.
C26_FailedIsNotProcessed ==
    \A b \in BagIds : JobIs(b, "failed") => ~bag_processed[b]

\* C27: the frame records of one camera topic have pairwise distinct file
\* paths.
C27_FramePathsDistinct ==
    (pc \in {"camera", "topic_returned"} /\ KindOf(cat) = "camera") =>
        \A i, j \in 1..Len(frames_data) :
            i # j => frames_data[i].file_path # frames_data[j].file_path

\* C28: every frame record handed to bulk_insert_frames carries the id of
\* the topic record created for its topic, and a bulk_insert_frames call is
\* made only right after the create_topic call of the same topic returned.
C28_FramesCarryCreatedTopicId ==
    /\ db_batch.op = "bulk_insert_frames" =>
           /\ db_topic.id # NoId
           /\ db_topic.name = db_batch.topic
           /\ \A i \in 1..Len(db_batch.records) :
                  db_batch.records[i].topic_id = db_topic.id
    /\ \A b \in BagIds :
           \A i \in 1..Len(db_calls[b]) :
               db_calls[b][i].op = "bulk_insert_frames" =>
                   /\ i > 1
                   /\ db_calls[b][i - 1] = Call("create_topic", db_calls[b][i].topic)

\* The second camera topic of a bag has inserted two frames under its id.
C28_Witness ==
    /\ pc = "topic_returned"
    /\ db_batch.op = "bulk_insert_frames"
    /\ db_topic.id = 2
    /\ Len(db_batch.records) = 2
    /\ db_batch.records[2].topic_id = 2
    /\ Len(db_calls[1]) = 4

====
